---- MODULE Spec2Model ----
(***************************************************************************)
(* Model of maestro/plays/__init__.py: the orchestration-play engine       *)
(* (BaseOrchestrationPlay) of maestro-ng.                                  *)
(*                                                                         *)
(* Three specifications share the variables:                               *)
(*   SpecDeps  builds a service graph and a play, then runs __init__, which *)
(*             computes the dependency sets with _gather_dependencies;      *)
(*   Spec      starts from a constructed play (one of Plays) and runs       *)
(*             run(): register() for each container, the worker threads     *)
(*             (act), and end();                                            *)
(*   FairSpec  is Spec with the fairness of the thread scheduler.           *)
(***************************************************************************)
EXTENDS Integers, Sequences, FiniteSets, TLC

VARIABLES
    _containers,    \* self._containers: the containers of the play
    requires,       \* service.requires: <<x, y>> when y is in x.requires
    needed_for,     \* service.needed_for: <<y, x>> when x is in y.needed_for
    _forward,       \* self._forward
    respect_dependencies, \* the constructor's argument
    constructed,    \* __init__ has run
    _dependencies,  \* self._dependencies: container -> set of containers
    tasks,          \* the containers run() registers a task for
    _threads,       \* self._threads: the containers a worker was started for
    _done,          \* self._done
    _error,         \* self._error
    _cv,            \* owner of the lock of self._cv, or Free
    pc,             \* container -> position of its worker thread in act()
    o,              \* container -> last message on task.o
    run,            \* container -> state of task.run()
    mpc,            \* position of the controlling thread in run()/end()
    t,              \* the loop variable of end()'s for loop
    pending,        \* threads end()'s for loop has not visited yet
    interrupts,     \* KeyboardInterrupts delivered so far
    stderr          \* lines written to sys.stderr

cfgvars == <<_containers, requires, needed_for, _forward,
             respect_dependencies, constructed, _dependencies, tasks>>
playvars == <<_threads, _done, _error, _cv, pc, o, run, mpc, t, pending,
              interrupts, stderr>>
vars == <<_containers, requires, needed_for, _forward, respect_dependencies,
          constructed, _dependencies, tasks, _threads, _done, _error, _cv,
          pc, o, run, mpc, t, pending, interrupts, stderr>>

(***************************************************************************)
(* The domain: containers, each a member of one service.                   *)
(***************************************************************************)
Containers == {"A", "A2", "B", "C"}
Services == {"sA", "sB", "sC"}
service == [c \in Containers |->
              CASE c = "A" -> "sA" [] c = "A2" -> "sA"
                [] c = "B" -> "sB" [] c = "C" -> "sC"]

\* Bounds of the model.
MaxEdges == 4
MaxInterrupts == 1

\* s.containers: the member containers of a service.
ServiceContainers(s) == {c \in Containers : service[c] = s}

\* service.requires and service.needed_for, two sets of services.
Requires(reqs, s) == {y \in Services : <<s, y>> \in reqs}
NeededFor(need, s) == {x \in Services : <<s, x>> \in need}

\* The needed_for that is the inverse of a requires.
Inverse(reqs) == {<<e[2], e[1]>> : e \in reqs}

\* functools.reduce(lambda x, y: x.union(y), [s.containers for s in deps], set([]))
Flatten(deps) == UNION {ServiceContainers(s) : s \in deps}

\* GatherStep without deps.intersection(containers).
GatherStep_NoIntersection(result, container, conts, reqs, need, fwd) ==
    LET deps == IF fwd THEN Requires(reqs, service[container])
                       ELSE NeededFor(need, service[container])
    IN  result \cup Flatten(deps)

\* GatherStep following service.requires whatever self._forward is.
GatherStep_AlwaysRequires(result, container, conts, reqs, need, fwd) ==
    result \cup (Flatten(Requires(reqs, service[container])) \cap conts)

\* One pass of the body of the for loop of _gather_dependencies.
GatherStep(result, container, conts, reqs, need, fwd) ==
    LET deps == IF fwd THEN Requires(reqs, service[container])
                       ELSE NeededFor(need, service[container])
    IN  result \cup (Flatten(deps) \cap conts)

\* The for loop: it iterates over the set object that result names when the
\* loop starts; the body rebinds result to a new set and never changes the
\* iterated one.
RECURSIVE GatherLoop(_, _, _, _, _, _)
GatherLoop(iterated, result, conts, reqs, need, fwd) ==
    IF iterated = {} THEN result
    ELSE LET container == CHOOSE c \in iterated : TRUE
         IN  GatherLoop(iterated \ {container},
                        GatherStep(result, container, conts, reqs, need, fwd),
                        conts, reqs, need, fwd)

_gather_dependencies(container, conts, reqs, need, fwd) ==
    LET result == {container}
    IN  GatherLoop(result, result, conts, reqs, need, fwd) \ {container}

\* InitDependencies gathering the dependencies whatever respect_dependencies is.
InitDependencies_AlwaysGather(conts, reqs, need, fwd, respect) ==
    [c \in conts |-> _gather_dependencies(c, conts, reqs, need, fwd)]

\* __init__: respect_dependencies and self._gather_dependencies(c) or set()
InitDependencies(conts, reqs, need, fwd, respect) ==
    [c \in conts |->
        IF respect /\ _gather_dependencies(c, conts, reqs, need, fwd) # {}
        THEN _gather_dependencies(c, conts, reqs, need, fwd)
        ELSE {}]

\* _satisfied with the difference taken the other way round.
_satisfied_Reversed(container) ==
    LET missing == _done \ _dependencies[container]
    IN  Cardinality(missing) = 0

\* _satisfied that finds nothing missing.
_satisfied_Always(container) ==
    LET missing == {}
    IN  Cardinality(missing) = 0

\* _satisfied(container)
_satisfied(container) ==
    LET missing == _dependencies[container] \ _done
    IN  Cardinality(missing) = 0

(***************************************************************************)
(* Values.                                                                 *)
(***************************************************************************)
None == <<>>
ManualAbort == <<"Manual abort.">>
Failure(c) == <<"Exception", c>>
Free == "free"
Main == "main"

\* The state of the engine's fields right after __init__ (lines 37-41), and
\* of the threads before run().
PlayInit ==
    /\ _threads = {}
    /\ _done = {}
    /\ _error = None
    /\ _cv = Free
    /\ pc = [c \in Containers |-> "unregistered"]
    /\ o = [c \in Containers |-> ""]
    /\ run = [c \in Containers |-> "no"]
    /\ mpc = "run"
    /\ t = "none"
    /\ pending = {}
    /\ interrupts = 0
    /\ stderr = <<>>

(***************************************************************************)
(* SpecDeps: the caller builds a service graph and chooses the play, then  *)
(* the constructor computes the dependency sets.                           *)
(***************************************************************************)
DepsInit ==
    /\ _containers = {}
    /\ requires = {}
    /\ needed_for = {}
    /\ _forward \in BOOLEAN
    /\ respect_dependencies \in BOOLEAN
    /\ constructed = FALSE
    /\ _dependencies = <<>>
    /\ tasks = {}
    /\ PlayInit

\* The caller puts service y in x.requires.
AddRequires(x, y) ==
    /\ ~constructed
    /\ <<x, y>> \notin requires
    /\ Cardinality(requires) + Cardinality(needed_for) < MaxEdges
    /\ requires' = requires \cup {<<x, y>>}
    /\ UNCHANGED <<_containers, needed_for, _forward, respect_dependencies,
                   constructed, _dependencies, tasks>>
    /\ UNCHANGED playvars

\* The caller puts service x in y.needed_for.
AddNeededFor(y, x) ==
    /\ ~constructed
    /\ <<y, x>> \notin needed_for
    /\ Cardinality(requires) + Cardinality(needed_for) < MaxEdges
    /\ needed_for' = needed_for \cup {<<y, x>>}
    /\ UNCHANGED <<_containers, requires, _forward, respect_dependencies,
                   constructed, _dependencies, tasks>>
    /\ UNCHANGED playvars

\* The caller puts container c in the play.
AddContainer(c) ==
    /\ ~constructed
    /\ c \notin _containers
    /\ _containers' = _containers \cup {c}
    /\ UNCHANGED <<requires, needed_for, _forward, respect_dependencies,
                   constructed, _dependencies, tasks>>
    /\ UNCHANGED playvars

\* BaseOrchestrationPlay.__init__
Construct ==
    /\ ~constructed
    /\ constructed' = TRUE
    /\ _dependencies' = InitDependencies(_containers, requires, needed_for,
                                         _forward, respect_dependencies)
    /\ UNCHANGED <<_containers, requires, needed_for, _forward,
                   respect_dependencies, tasks>>
    /\ UNCHANGED playvars

DepsNext ==
    \/ \E x \in Services, y \in Services : AddRequires(x, y)
    \/ \E y \in Services, x \in Services : AddNeededFor(y, x)
    \/ \E c \in Containers : AddContainer(c)
    \/ Construct

SpecDeps == DepsInit /\ [][DepsNext]_vars

(***************************************************************************)
(* Spec: one play. The plays are built by Start, Stop and Status over the  *)
(* containers A, B, C, each in its own service.                            *)
(***************************************************************************)
PlayContainers == {"A", "B", "C"}
Chain == {<<"sB", "sA">>, <<"sC", "sB">>}
Fork == {<<"sC", "sA">>}
Cycle == {<<"sA", "sB">>, <<"sB", "sA">>}

\* Start.__init__, Stop.__init__ (forward=False), Status.__init__
\* (respect_dependencies=False); each service graph has the needed_for that
\* is the inverse of its requires. Start.run, Stop.run and Status.run register
\* a task for every container; the last play is a caller of the base class
\* that registers no task for A.
Plays ==
    {[play |-> "Start", reqs |-> Chain, forward |-> TRUE, respect |-> TRUE,
      tasks |-> PlayContainers],
     [play |-> "Start", reqs |-> Fork, forward |-> TRUE, respect |-> TRUE,
      tasks |-> PlayContainers],
     [play |-> "Start", reqs |-> Cycle, forward |-> TRUE, respect |-> TRUE,
      tasks |-> PlayContainers],
     [play |-> "Stop", reqs |-> Chain, forward |-> FALSE, respect |-> TRUE,
      tasks |-> PlayContainers],
     [play |-> "Status", reqs |-> Chain, forward |-> TRUE, respect |-> FALSE,
      tasks |-> PlayContainers],
     [play |-> "Base", reqs |-> Fork, forward |-> TRUE, respect |-> TRUE,
      tasks |-> {"B", "C"}]}

Init ==
    /\ \E p \in Plays :
        /\ _containers = PlayContainers
        /\ requires = p.reqs
        /\ needed_for = Inverse(p.reqs)
        /\ _forward = p.forward
        /\ respect_dependencies = p.respect
        /\ _dependencies = InitDependencies(PlayContainers, p.reqs,
                                            Inverse(p.reqs), p.forward,
                                            p.respect)
        /\ tasks = p.tasks
    /\ constructed = TRUE
    /\ PlayInit

\* register(task), called by run() for each container: starts the worker.
Register(c) ==
    /\ mpc = "run"
    /\ c \in tasks \ _threads
    /\ pc' = [pc EXCEPT ![c] = "start"]
    /\ _threads' = _threads \cup {c}
    /\ UNCHANGED <<_done, _error, _cv, o, run, mpc, t, pending, interrupts,
                   stderr>>
    /\ UNCHANGED cfgvars

\* act, lines 61-65: task.o.pending('waiting...'); self._cv.acquire()
Acquire(c) ==
    /\ pc[c] = "start"
    /\ _cv = Free
    /\ o' = [o EXCEPT ![c] = "waiting..."]
    /\ _cv' = c
    /\ pc' = [pc EXCEPT ![c] = "while"]
    /\ UNCHANGED <<_threads, _done, _error, run, mpc, t, pending, interrupts,
                   stderr>>
    /\ UNCHANGED cfgvars

\* While without the test of self._error.
While_NoErrorTest(c) ==
    /\ pc[c] = "while"
    /\ IF ~_satisfied(c)
       THEN /\ _cv' = Free
            /\ pc' = [pc EXCEPT ![c] = "wait"]
       ELSE /\ _cv' = Free
            /\ pc' = [pc EXCEPT ![c] = "if_error"]
    /\ UNCHANGED <<_threads, _done, _error, o, run, mpc, t, pending,
                   interrupts, stderr>>
    /\ UNCHANGED cfgvars

\* act, lines 66-68: the test of the while loop, then self._cv.wait(1) giving
\* up the lock, or the end of the loop and self._cv.release().
While(c) ==
    /\ pc[c] = "while"
    /\ IF ~_satisfied(c) /\ _error = None
       THEN /\ _cv' = Free
            /\ pc' = [pc EXCEPT ![c] = "wait"]
       ELSE /\ _cv' = Free
            /\ pc' = [pc EXCEPT ![c] = "if_error"]
    /\ UNCHANGED <<_threads, _done, _error, o, run, mpc, t, pending,
                   interrupts, stderr>>
    /\ UNCHANGED cfgvars

\* act, line 67: self._cv.wait(1) returns, notified or timed out, with the
\* lock taken again.
Wait(c) ==
    /\ pc[c] = "wait"
    /\ _cv = Free
    /\ _cv' = c
    /\ pc' = [pc EXCEPT ![c] = "while"]
    /\ UNCHANGED <<_threads, _done, _error, o, run, mpc, t, pending,
                   interrupts, stderr>>
    /\ UNCHANGED cfgvars

\* IfError without the abort: task.run() is called whatever self._error is.
IfError_NoAbort(c) ==
    /\ pc[c] = "if_error"
    /\ run' = [run EXCEPT ![c] = "running"]
    /\ pc' = [pc EXCEPT ![c] = "run"]
    /\ UNCHANGED <<_threads, _done, _error, _cv, o, mpc, t, pending,
                   interrupts, stderr>>
    /\ UNCHANGED cfgvars

\* IfError aborting only a worker whose dependencies are not satisfied.
IfError_AbortUnsatisfied(c) ==
    /\ pc[c] = "if_error"
    /\ IF _error # None /\ ~_satisfied(c)
       THEN /\ o' = [o EXCEPT ![c] = "aborted!"]
            /\ pc' = [pc EXCEPT ![c] = "returned"]
            /\ UNCHANGED run
       ELSE /\ run' = [run EXCEPT ![c] = "running"]
            /\ pc' = [pc EXCEPT ![c] = "run"]
            /\ UNCHANGED o
    /\ UNCHANGED <<_threads, _done, _error, _cv, mpc, t, pending, interrupts,
                   stderr>>
    /\ UNCHANGED cfgvars

\* act, lines 71-76: abort if self._error, else call task.run()
IfError(c) ==
    /\ pc[c] = "if_error"
    /\ IF _error # None
       THEN /\ o' = [o EXCEPT ![c] = "aborted!"]
            /\ pc' = [pc EXCEPT ![c] = "returned"]
            /\ UNCHANGED run
       ELSE /\ run' = [run EXCEPT ![c] = "running"]
            /\ pc' = [pc EXCEPT ![c] = "run"]
            /\ UNCHANGED o
    /\ UNCHANGED <<_threads, _done, _error, _cv, mpc, t, pending, interrupts,
                   stderr>>
    /\ UNCHANGED cfgvars

\* RunReturns without self._done.add(task.container).
RunReturns_NoDoneAdd(c) ==
    /\ pc[c] = "run"
    /\ run' = [run EXCEPT ![c] = "returned"]
    /\ pc' = [pc EXCEPT ![c] = "finally"]
    /\ UNCHANGED <<_threads, _done, _error, _cv, o, mpc, t, pending,
                   interrupts, stderr>>
    /\ UNCHANGED cfgvars

\* RunReturns adding the container to self._done only while self._error is
\* unset.
RunReturns_SkipsDoneOnError(c) ==
    /\ pc[c] = "run"
    /\ run' = [run EXCEPT ![c] = "returned"]
    /\ _done' = IF _error = None THEN _done \cup {c} ELSE _done
    /\ pc' = [pc EXCEPT ![c] = "finally"]
    /\ UNCHANGED <<_threads, _error, _cv, o, mpc, t, pending, interrupts,
                   stderr>>
    /\ UNCHANGED cfgvars

\* act, lines 76-77: task.run() returns; self._done.add(task.container)
RunReturns(c) ==
    /\ pc[c] = "run"
    /\ run' = [run EXCEPT ![c] = "returned"]
    /\ _done' = _done \cup {c}
    /\ pc' = [pc EXCEPT ![c] = "finally"]
    /\ UNCHANGED <<_threads, _error, _cv, o, mpc, t, pending, interrupts,
                   stderr>>
    /\ UNCHANGED cfgvars

\* RunRaises with self._done.add(task.container) done for a failed action too.
RunRaises_AddsDone(c) ==
    /\ pc[c] = "run"
    /\ run' = [run EXCEPT ![c] = "raised"]
    /\ _error' = Failure(c)
    /\ _done' = _done \cup {c}
    /\ pc' = [pc EXCEPT ![c] = "finally"]
    /\ UNCHANGED <<_threads, _cv, o, mpc, t, pending, interrupts, stderr>>
    /\ UNCHANGED cfgvars

\* act, lines 76-79: task.run() raises e; self._error = e
RunRaises(c) ==
    /\ pc[c] = "run"
    /\ run' = [run EXCEPT ![c] = "raised"]
    /\ _error' = Failure(c)
    /\ pc' = [pc EXCEPT ![c] = "finally"]
    /\ UNCHANGED <<_threads, _done, _cv, o, mpc, t, pending, interrupts,
                   stderr>>
    /\ UNCHANGED cfgvars

\* act, lines 80-83, the finally clause: self._cv.acquire();
\* self._cv.notifyAll(); self._cv.release(); the thread ends. Every waiter's
\* wait(1) may return at any time (Wait), so the notification changes no
\* variable, and the lock is taken and given back in the one step.
NotifyAll(c) ==
    /\ pc[c] = "finally"
    /\ _cv = Free
    /\ pc' = [pc EXCEPT ![c] = "returned"]
    /\ UNCHANGED <<_threads, _done, _error, _cv, o, run, mpc, t, pending,
                   interrupts, stderr>>
    /\ UNCHANGED cfgvars

\* run() has registered its tasks and calls end().
End ==
    /\ mpc = "run"
    /\ _threads = tasks
    /\ pending' = _threads
    /\ mpc' = "for"
    /\ UNCHANGED <<_threads, _done, _error, _cv, pc, o, run, t, interrupts,
                   stderr>>
    /\ UNCHANGED cfgvars

\* end, line 93: for t in self._threads
For ==
    /\ mpc = "for"
    /\ IF pending = {}
       THEN /\ mpc' = "om_end"
            /\ t' = "none"
            /\ UNCHANGED pending
       ELSE \E th \in pending :
            /\ t' = th
            /\ pending' = pending \ {th}
            /\ mpc' = "while"
    /\ UNCHANGED <<_threads, _done, _error, _cv, pc, o, run, interrupts,
                   stderr>>
    /\ UNCHANGED cfgvars

\* Join leaving the while loop whether or not the thread is alive.
Join_NoWait ==
    /\ mpc = "while"
    /\ mpc' = "finally"
    /\ UNCHANGED <<_threads, _done, _error, _cv, pc, o, run, t, pending,
                   interrupts, stderr>>
    /\ UNCHANGED cfgvars

\* end, lines 95-96: the while loop ends; until then t.join(1) returns and the
\* test is made again, which changes nothing.
Join ==
    /\ mpc = "while"
    /\ ~(_error = None /\ pc[t] # "returned")
    /\ mpc' = "finally"
    /\ UNCHANGED <<_threads, _done, _error, _cv, pc, o, run, t, pending,
                   interrupts, stderr>>
    /\ UNCHANGED cfgvars

\* Interrupt swallowing the KeyboardInterrupt without setting self._error.
Interrupt_NoError ==
    /\ mpc = "while"
    /\ interrupts < MaxInterrupts
    /\ interrupts' = interrupts + 1
    /\ mpc' = "finally"
    /\ UNCHANGED <<_threads, _done, _error, _cv, pc, o, run, t, pending,
                   stderr>>
    /\ UNCHANGED cfgvars

\* end, lines 97-98: KeyboardInterrupt in the while loop
Interrupt ==
    /\ mpc = "while"
    /\ interrupts < MaxInterrupts
    /\ interrupts' = interrupts + 1
    /\ _error' = ManualAbort
    /\ mpc' = "finally"
    /\ UNCHANGED <<_threads, _done, _cv, pc, o, run, t, pending, stderr>>
    /\ UNCHANGED cfgvars

\* end, lines 101-104, the finally clause: self._cv.acquire();
\* self._cv.notifyAll(); self._cv.release()
EndNotifyAll ==
    /\ mpc = "finally"
    /\ _cv = Free
    /\ mpc' = "for"
    /\ UNCHANGED <<_threads, _done, _error, _cv, pc, o, run, t, pending,
                   interrupts, stderr>>
    /\ UNCHANGED cfgvars

\* OmEnd writing the diagnostic whatever self._error is.
OmEnd_AlwaysWrite ==
    /\ mpc = "om_end"
    /\ mpc' = "write"
    /\ UNCHANGED <<_threads, _done, _error, _cv, pc, o, run, t, pending,
                   interrupts, stderr>>
    /\ UNCHANGED cfgvars

\* end, lines 105-108: self._om.end(); if self._error
OmEnd ==
    /\ mpc = "om_end"
    /\ mpc' = IF _error # None THEN "write" ELSE "returned"
    /\ UNCHANGED <<_threads, _done, _error, _cv, pc, o, run, t, pending,
                   interrupts, stderr>>
    /\ UNCHANGED cfgvars

\* end, line 109: sys.stderr.write('{}\n'.format(self._error))
Write ==
    /\ mpc = "write"
    /\ stderr' = Append(stderr, _error)
    /\ mpc' = "returned"
    /\ UNCHANGED <<_threads, _done, _error, _cv, pc, o, run, t, pending,
                   interrupts>>
    /\ UNCHANGED cfgvars

\* The steps of the worker thread of container c.
Worker(c) ==
    \/ Acquire(c)
    \/ While(c)
    \/ Wait(c)
    \/ IfError(c)
    \/ RunReturns(c)
    \/ RunRaises(c)
    \/ NotifyAll(c)

\* The steps of the controlling thread: run() and end().
Controller ==
    \/ \E c \in Containers : Register(c)
    \/ End
    \/ For
    \/ Join
    \/ EndNotifyAll
    \/ OmEnd
    \/ Write

Next ==
    \/ Controller
    \/ Interrupt
    \/ \E c \in Containers : Worker(c)

Spec == Init /\ [][Next]_vars

\* The scheduler runs every thread that can take a step, and a thread that
\* asks for the lock gets it in the end: the lock is held for a few
\* statements at a time and a waiter gives it up for a second in each turn of
\* its loop. Nothing obliges the user to interrupt.
Fairness ==
    /\ SF_vars(Controller)
    /\ \A c \in Containers : SF_vars(Worker(c))

FairSpec == Init /\ [][Next]_vars /\ Fairness

(***************************************************************************)
(* Vocabulary of the properties.                                           *)
(***************************************************************************)
\* Every worker started has returned from act.
AllWorkersReturned == \A c \in _threads : pc[c] = "returned"

\* The containers reached from c along the computed dependency sets.
RECURSIVE DependsOn(_, _)
DependsOn(seen, n) ==
    IF n = 0 THEN seen
    ELSE DependsOn(seen \cup UNION {_dependencies[d] : d \in seen}, n - 1)
Acyclic ==
    \A c \in _containers :
        c \notin DependsOn(_dependencies[c], Cardinality(_containers))

\* The least set containing c and closed under 'add the in-play containers of
\* the services required by (forward) or needing (backward) the service of a
\* member'.
RECURSIVE Closure(_, _)
Closure(set, n) ==
    IF n = 0 THEN set
    ELSE Closure(set \cup
                 UNION {Flatten(IF _forward
                                THEN Requires(requires, service[d])
                                ELSE NeededFor(needed_for, service[d]))
                        \cap _containers : d \in set}, n - 1)
TransitiveDependencies(c) == Closure({c}, Cardinality(Containers)) \ {c}

InPlay(s) == ServiceContainers(s) \cap _containers

\* The worker of c is in the block 'wait until satisfied or error' of act.
InWaitLoop(c) == pc[c] \in {"while", "wait"}
\* The worker of c has not passed the abort check of act yet: it is in the
\* wait loop or between the loop and the check.
Undecided(c) == run[c] = "no" /\ (InWaitLoop(c) \/ pc[c] = "if_error")
Aborted(c) == pc[c] = "returned" /\ o[c] = "aborted!" /\ run[c] = "no"

ChainStart == _forward /\ respect_dependencies /\ requires = Chain

(***************************************************************************)
(* C1. No premature start: a worker that has called task.run() for         *)
(* container c did so with every container of dependencies(c) in done.     *)
(***************************************************************************)
C1_NoPrematureStart ==
    \A c \in _containers : run[c] # "no" => _dependencies[c] \subseteq _done

\* A container with a dependency is running its action.
C1_Witness ==
    \E c \in _containers : run[c] = "running" /\ _dependencies[c] # {}

(***************************************************************************)
(* C2. Abort propagation: once error is set, a worker that is still in its *)
(* wait loop never calls task.run() and ends by reporting 'aborted!'.      *)
(* First conjunct: with error set, a worker that has not passed its abort  *)
(* check stays there, its action not begun, or aborts, and error stays     *)
(* set. Second conjunct: no such worker stays before its abort check for   *)
(* ever. Together: every worker in its wait loop when or after error is    *)
(* set never runs its action and ends aborted.                             *)
(***************************************************************************)
C2_AbortPropagation ==
    /\ [][\A c \in PlayContainers :
            (_error # None /\ Undecided(c))
              => /\ _error' # None
                 /\ run'[c] = "no"
                 /\ (Undecided(c)' \/ Aborted(c)')]_vars
    /\ []<>(\A c \in PlayContainers : ~(_error # None /\ Undecided(c)))

\* B was held back by A, whose action failed, and B has aborted.
C2_Witness ==
    /\ "A" \in _dependencies["B"]
    /\ run["A"] = "raised"
    /\ _error = Failure("A")
    /\ Aborted("B")

(***************************************************************************)
(* C3. end() waits for all workers: when end() has returned, every         *)
(* registered worker has terminated.                                       *)
(***************************************************************************)
C3_EndWaitsForAll ==
    mpc \in {"om_end", "write", "returned"} => AllWorkersReturned

(***************************************************************************)
(* C4. Termination: with a task registered for every container, acyclic    *)
(* dependencies and no interrupt, under fair scheduling every worker        *)
(* terminates and end() returns.                                           *)
(***************************************************************************)
C4_Termination ==
    <>(\/ tasks # _containers
       \/ ~Acyclic
       \/ interrupts > 0
       \/ (mpc = "returned" /\ _threads = _containers /\ AllWorkersReturned))

\* An acyclic play ended without interrupt, an action having failed.
C4_Witness ==
    /\ Acyclic
    /\ interrupts = 0
    /\ mpc = "returned" /\ _threads = _containers /\ AllWorkersReturned
    /\ \E c \in _containers : run[c] = "raised"
    /\ \E c \in _containers : run[c] = "returned"

(***************************************************************************)
(* C5. First failure wins: once error is set its value never changes.      *)
(***************************************************************************)
C5_FirstFailureWins == [][_error # None => _error' = _error]_vars

(***************************************************************************)
(* C6. Dependency exclusion: the dependency set computed for container c   *)
(* does not contain c and holds only other containers of the play.         *)
(***************************************************************************)
C6_DependencyExclusion ==
    constructed =>
        /\ DOMAIN _dependencies = _containers
        /\ \A c \in _containers :
            /\ c \notin _dependencies[c]
            /\ _dependencies[c] \subseteq _containers \ {c}

\* A container with a dependency whose service follows an edge to itself and
\* an edge to a service with a container outside the play.
C6_Witness ==
    /\ constructed
    /\ \E c \in _containers :
        LET deps == IF _forward THEN Requires(requires, service[c])
                                ELSE NeededFor(needed_for, service[c])
        IN  /\ _dependencies[c] # {}
            /\ service[c] \in deps
            /\ \E s \in deps : ~(ServiceContainers(s) \subseteq _containers)

(***************************************************************************)
(* C7. Transitive closure: the dependency set of c is the full transitive  *)
(* closure of c's dependencies within the play, minus c.                   *)
(***************************************************************************)
C7_TransitiveClosure ==
    (constructed /\ respect_dependencies) =>
        \A c \in _containers : _dependencies[c] = TransitiveDependencies(c)

(***************************************************************************)
(* C8. Direction inversion: when service X requires another service Y and  *)
(* needed_for is the inverse of requires, a forward play puts the in-play  *)
(* containers of Y in the dependency set of each in-play container of X    *)
(* and the sets of Y's containers are what they would be without that      *)
(* requirement; a backward play is the mirror.                             *)
(***************************************************************************)
C8_DirectionInversion ==
    (constructed /\ respect_dependencies /\ needed_for = Inverse(requires)) =>
        \A e \in requires :
            LET X == e[1]
                Y == e[2]
                without == InitDependencies(_containers, requires \ {e},
                                            needed_for \ {<<Y, X>>},
                                            _forward, TRUE)
            IN  X # Y =>
                    IF _forward
                    THEN /\ \A x \in InPlay(X) : InPlay(Y) \subseteq _dependencies[x]
                         /\ \A y \in InPlay(Y) : _dependencies[y] = without[y]
                    ELSE /\ \A y \in InPlay(Y) : InPlay(X) \subseteq _dependencies[y]
                         /\ \A x \in InPlay(X) : _dependencies[x] = without[x]

\* A backward play over containers of two services, one requiring the other.
C8_Witness ==
    /\ constructed /\ respect_dependencies /\ ~_forward
    /\ needed_for = Inverse(requires)
    /\ \E e \in requires :
        /\ e[1] # e[2]
        /\ InPlay(e[1]) # {}
        /\ Cardinality(InPlay(e[2])) > 1
        /\ \A y \in InPlay(e[2]) : InPlay(e[1]) \subseteq _dependencies[y]
        /\ \A x \in InPlay(e[1]) : _dependencies[x] \cap InPlay(e[2]) = {}

(***************************************************************************)
(* C9. Dependents of a failed task never run: a container whose action     *)
(* failed is never in done and no container depending on it runs; in the   *)
(* forward chain A, B, C, when A's action fails B and C end aborted and,   *)
(* without interrupt, end() writes A's failure.                            *)
(***************************************************************************)
C9_DependentsNeverRun ==
    /\ [](\A c \in _containers, d \in _containers :
            run[c] = "raised" =>
                /\ c \notin _done
                /\ (c \in _dependencies[d] => run[d] = "no"))
    /\ [](ChainStart /\ run["A"] = "raised" /\ interrupts = 0
          /\ mpc = "returned" => stderr = <<Failure("A")>>)
    /\ (ChainStart /\ run["A"] = "raised") ~> (Aborted("B") /\ Aborted("C"))

\* The chain play has ended: A failed, B and C aborted, A's failure written.
C9_Witness ==
    /\ ChainStart
    /\ run["A"] = "raised"
    /\ Aborted("B") /\ Aborted("C")
    /\ interrupts = 0
    /\ mpc = "returned"
    /\ stderr = <<Failure("A")>>

(***************************************************************************)
(* C10. No-dependency full concurrency: in a play built with               *)
(* respect_dependencies disabled every dependency set is empty, every      *)
(* container is satisfied, no worker waits on the condition, and a running *)
(* action can complete whatever the other workers have done.               *)
(***************************************************************************)
C10_FullConcurrency ==
    ~respect_dependencies =>
        \A c \in _containers :
            /\ _dependencies[c] = {}
            /\ _satisfied(c)
            /\ pc[c] # "wait"
            /\ (pc[c] = "run" => ENABLED RunReturns(c))

\* All the actions of a play without dependencies are running at once, none
\* completed: from here they complete in any order.
C10_Witness ==
    /\ ~respect_dependencies
    /\ requires # {}
    /\ _done = {}
    /\ \A c \in _containers : pc[c] = "run"

(***************************************************************************)
(* The three ways a worker's act can have ended.                           *)
(***************************************************************************)
\* (a) the action was run, returned, and the container was added to done.
RanAndDone(c) == run[c] = "returned" /\ c \in _done /\ o[c] # "aborted!"
\* (b) the worker aborted without running the action.
AbortedWithoutRunning(c) == run[c] = "no" /\ o[c] = "aborted!" /\ c \notin _done
\* the action was run and failed: error was set, the container is not in done.
RanAndFailed(c) ==
    run[c] = "raised" /\ c \notin _done /\ o[c] # "aborted!" /\ _error # None

\* task.run() is not called again once it has returned or raised.
RunAtMostOnce ==
    [][\A c \in PlayContainers :
        run[c] \in {"returned", "raised"} => run'[c] = run[c]]_vars

(***************************************************************************)
(* C11. Worker outcome dichotomy, as stated: a worker that has terminated  *)
(* has either (a) run its action once and added its container to done or  *)
(* (b) aborted without running it, never both and never neither.           *)
(***************************************************************************)
C11_OutcomeDichotomy ==
    \A c \in _threads :
        pc[c] = "returned" => (RanAndDone(c) # AbortedWithoutRunning(c))

(***************************************************************************)
(* C11, amended: a worker that has terminated has done exactly one of (a)  *)
(* run its action once, the action returning, and added its container to   *)
(* done, (a') run its action once, the action failing, set error and not    *)
(* added its container to done, (b) aborted without running its action.     *)
(***************************************************************************)
C11_OutcomeTrichotomy ==
    /\ [](\A c \in _threads :
            pc[c] = "returned" =>
                /\ RanAndDone(c) \/ RanAndFailed(c) \/ AbortedWithoutRunning(c)
                /\ ~(RanAndDone(c) /\ RanAndFailed(c))
                /\ ~(RanAndDone(c) /\ AbortedWithoutRunning(c))
                /\ ~(RanAndFailed(c) /\ AbortedWithoutRunning(c)))
    /\ RunAtMostOnce

\* Three workers have terminated, one in each way.
C11_Witness ==
    \E a \in _threads, f \in _threads, b \in _threads :
        /\ pc[a] = "returned" /\ RanAndDone(a)
        /\ pc[f] = "returned" /\ RanAndFailed(f)
        /\ pc[b] = "returned" /\ AbortedWithoutRunning(b)

(***************************************************************************)
(* C12. done is a monotone record of successes: no step removes an element *)
(* from done, and a container is in done only if its own action was run    *)
(* and returned without failure.                                           *)
(***************************************************************************)
C12_DoneMonotone ==
    /\ [][_done \subseteq _done']_vars
    /\ [](\A c \in _done : c \in _threads /\ run[c] = "returned")

\* end() has returned from a play in which an action succeeded, an action
\* failed and a worker aborted: only the first container is in done.
C12_Witness ==
    /\ mpc = "returned"
    /\ \E a \in _done : pc[a] = "returned"
    /\ \E f \in _threads : run[f] = "raised" /\ pc[f] = "returned" /\ f \notin _done
    /\ \E b \in _threads : Aborted(b) /\ b \notin _done

(***************************************************************************)
(* C13. Monitor discipline: every write of the shared done set and error   *)
(* slot, by a worker or by end(), is made while the writing thread holds   *)
(* the monitor: a step that adds c to done or stores c's failure in error  *)
(* is taken with _cv held by c, and end() stores the manual-abort marker   *)
(* with _cv held by the main thread.                                       *)
(***************************************************************************)
C13_MonitorDiscipline ==
    [][/\ \A c \in PlayContainers : c \in (_done' \ _done) => _cv = c
       /\ _error' # _error =>
            IF _error' = ManualAbort
            THEN _cv = Main
            ELSE \E c \in PlayContainers : _error' = Failure(c) /\ _cv = c]_vars

(***************************************************************************)
(* C14. Wake-all on every exit path: the step by which a worker returns is *)
(* always the one that acquires the monitor, notifies all waiters and      *)
(* releases it, whether the action succeeded, failed or was never run.     *)
(***************************************************************************)
C14_WakeAllOnEveryExit ==
    [][\A c \in PlayContainers :
        (pc[c] # "returned" /\ pc'[c] = "returned") => NotifyAll(c)]_vars

(***************************************************************************)
(* C15. Manual abort: an interrupt in end()'s join loop sets error to the  *)
(* manual-abort marker and takes end() to the notification of all waiters; *)
(* from then on no worker that has not yet run its action runs it, every   *)
(* such worker eventually terminates aborted, and end() returns.           *)
(***************************************************************************)
C15_ManualAbort ==
    /\ [][interrupts' > interrupts =>
            /\ mpc = "while"
            /\ _error' = ManualAbort
            /\ mpc' = "finally"]_vars
    /\ [][(mpc = "finally" /\ mpc' # "finally") => EndNotifyAll]_vars
    /\ [][\A c \in PlayContainers :
            (interrupts > 0 /\ run[c] = "no") => run'[c] = "no"]_vars
    /\ []<>(interrupts > 0 =>
            (mpc = "returned" /\ \A c \in _threads : run[c] = "no" => Aborted(c)))

\* end() has returned after an interrupt: error is the marker, it has been
\* written to stderr, one action had already succeeded and a waiting worker
\* has aborted.
C15_Witness ==
    /\ interrupts > 0
    /\ mpc = "returned"
    /\ _error = ManualAbort
    /\ stderr = <<ManualAbort>>
    /\ _done # {}
    /\ \E c \in _threads : Aborted(c) /\ _dependencies[c] # {}

(***************************************************************************)
(* C16. Error reporting: a worker whose action raised goes on to its       *)
(* finally clause and returns, with the failure captured in error; end()   *)
(* writes at most one diagnostic line, the captured error, and when it has *)
(* returned it has written exactly one line if some action raised or an    *)
(* interrupt was captured and none otherwise, in particular none when      *)
(* every registered action succeeded and there was no interrupt.           *)
(***************************************************************************)
C16_ErrorReporting ==
    /\ \A c \in PlayContainers :
        run[c] = "raised" => (pc[c] \in {"finally", "returned"} /\ _error # None)
    /\ Len(stderr) <= 1
    /\ Len(stderr) = 1 =>
        /\ mpc = "returned"
        /\ stderr[1] \in {ManualAbort} \cup
                         {Failure(c) : c \in {d \in _threads : run[d] = "raised"}}
    /\ mpc = "returned" =>
        (Len(stderr) = 1 <=>
            ((\E c \in _threads : run[c] = "raised") \/ interrupts > 0))
    /\ (mpc = "returned" /\ interrupts = 0
            /\ \A c \in _threads : run[c] = "returned") => stderr = <<>>

\* end() has returned from a play without interrupt in which one action
\* raised and another returned: the one line written is that failure.
C16_Witness ==
    /\ mpc = "returned"
    /\ interrupts = 0
    /\ \E c \in _threads : run[c] = "raised" /\ stderr = <<Failure(c)>>
    /\ \E d \in _threads : run[d] = "returned"

(***************************************************************************)
(* C17. No cancellation of in-flight work: a worker that has passed its    *)
(* abort check and is running its action is left alone by every step that  *)
(* sets error; it can always complete its action, leaves it only by the    *)
(* action returning or raising, is never reported aborted, and when the    *)
(* action returns its container is added to done whatever error holds.     *)
(***************************************************************************)
C17_NoCancellation ==
    /\ [][\A c \in PlayContainers :
            (pc[c] = "run" /\ _error' # _error /\ _error' # Failure(c)) =>
                (pc'[c] = "run" /\ run'[c] = run[c] /\ o'[c] = o[c])]_vars
    /\ [][\A c \in PlayContainers :
            (pc[c] = "run" /\ pc'[c] # "run") =>
                /\ pc'[c] = "finally"
                /\ o'[c] # "aborted!"
                /\ run'[c] \in {"returned", "raised"}
                /\ run'[c] = "returned" => c \in _done']_vars
    /\ [](\A c \in PlayContainers : pc[c] = "run" => ENABLED RunReturns(c))

\* error is set, end() has already returned, and a worker is still running
\* its action while another, whose action returned, is in done and about to
\* notify.
C17_Witness ==
    /\ _error # None
    /\ mpc = "returned"
    /\ \E c \in _threads : pc[c] = "run" /\ run[c] = "running"
    /\ \E d \in _done : pc[d] = "finally"

(***************************************************************************)
(* C18. Transitive ordering from direct dependencies: in a play that       *)
(* respects dependencies, the action of a container never begins before    *)
(* the action of every container reachable from it along requires (Start)  *)
(* or needed_for (Stop), directly or through a chain of in-play            *)
(* containers, has returned and put that container in done, although       *)
(* _dependencies holds the direct ones only.                                *)
(***************************************************************************)
C18_TransitiveOrdering ==
    respect_dependencies =>
        \A c \in _containers :
            run[c] # "no" =>
                \A d \in TransitiveDependencies(c) :
                    run[d] = "returned" /\ d \in _done

\* A Start play runs the action of a container with an indirect dependency
\* that _gather_dependencies did not return.
C18_Witness ==
    /\ _forward /\ respect_dependencies
    /\ \E c \in _threads :
        /\ run[c] = "running"
        /\ \E d \in TransitiveDependencies(c) : d \notin _dependencies[c]

(***************************************************************************)
(* C19. Late registration after an error: a started worker can go ahead    *)
(* whatever remains to be registered; once error is set it stays set and   *)
(* no task whose action has not begun, registered or yet to be, ever runs  *)
(* its action; with error set a worker leaves the wait loop at its first   *)
(* test, without waiting, and at the abort check reports aborted, whatever *)
(* its dependencies; every registered one has eventually reported aborted. *)
(***************************************************************************)
C19_LateRegistration ==
    /\ [](\A c \in PlayContainers :
            (pc[c] = "start" /\ _cv = Free) => ENABLED Acquire(c))
    /\ [][\A c \in PlayContainers :
            (_error # None /\ run[c] = "no") =>
                (_error' # None /\ run'[c] = "no")]_vars
    /\ [][\A c \in PlayContainers :
            (_error # None /\ pc[c] = "while" /\ pc'[c] # "while") =>
                pc'[c] = "if_error"]_vars
    /\ [][\A c \in PlayContainers :
            (_error # None /\ pc[c] = "if_error" /\ pc'[c] # "if_error") =>
                (pc'[c] = "returned" /\ o'[c] = "aborted!" /\ run'[c] = "no")]_vars
    /\ []<>(\A c \in _threads : (_error # None /\ run[c] = "no") => Aborted(c))

\* run() is still registering tasks when error is already set: a task has
\* yet to be registered, and a worker with no dependencies has aborted.
C19_Witness ==
    /\ mpc = "run"
    /\ _error # None
    /\ \E c \in tasks : pc[c] = "unregistered"
    /\ \E b \in _threads : Aborted(b) /\ _dependencies[b] = {}

\* The registered containers whose dependencies can never all be in done: the
\* container is on a cycle of _dependencies, or depends on a container for
\* which the play registers no task.
Unsatisfiable ==
    {c \in tasks :
        \/ c \in DependsOn(_dependencies[c], Cardinality(_containers))
        \/ ~(_dependencies[c] \subseteq tasks)}

(***************************************************************************)
(* C20. Unsatisfiable dependencies block forever: as long as no action has *)
(* failed and no interrupt has occurred, no worker of a container whose    *)
(* dependencies lie on a cycle or name a container without a task has run  *)
(* its action or terminated, and if there is such a container end() has    *)
(* not left its join loop.                                                 *)
(***************************************************************************)
C20_UnsatisfiableBlocks ==
    (interrupts = 0 /\ \A d \in PlayContainers : run[d] # "raised") =>
        /\ \A c \in Unsatisfiable : run[c] = "no" /\ pc[c] # "returned"
        /\ Unsatisfiable # {} => mpc \notin {"om_end", "write", "returned"}

\* Every other action has returned, no failure and no interrupt occurred, and
\* end() is joining a worker that is waiting for unsatisfiable dependencies.
C20_Witness ==
    /\ interrupts = 0 /\ _error = None
    /\ mpc = "while" /\ t \in Unsatisfiable /\ pc[t] = "wait"
    /\ \A c \in tasks \ Unsatisfiable : pc[c] = "returned" /\ c \in _done
    /\ tasks \ Unsatisfiable # {}

====
